---- MODULE Spec2Model ----
(***************************************************************************)
(* Stdio-to-HTTP bridge (src/src/http-bridge.ts) and the wallet file of    *)
(* the local server (WalletJson, src/unnamed/part_000).  The bridge does   *)
(* not use WalletJson: each specification moves one of the two and leaves  *)
(* the other in its initial state.                                         *)
(*                                                                         *)
(*                                                                         *)
(* Text is modelled as a sequence of tokens.  A token is an atomic piece   *)
(* of text: the newline, a blank, the SSE prefix "data: ", or a word (a    *)
(* JSON text or a text that is not JSON).  Chunk boundaries fall between   *)
(* tokens.                                                                 *)
(*                                                                         *)
(* Scheduling: every event handler (stdin 'data'/'end', the response       *)
(* callback, response 'data'/'end', request 'error') is one action.  The   *)
(* part of processLine behind `await` is a promise reaction job: it is     *)
(* queued in `microtasks` by resolve/reject and run by RunMicrotask.  The  *)
(* runtime drains the promise job queue before it delivers the next I/O    *)
(* event, so the handlers are enabled only while the queue is empty.       *)
(***************************************************************************)
EXTENDS Integers, Sequences, FiniteSets, TLC

----------------------------------------------------------------------------
(* Bounds of the model *)

\* requests dispatched in one run
MaxReq == 2
\* tokens received on stdin in one run
MaxInput == 3
\* tokens in one stdin chunk
MaxChunk == 2
\* 'data' chunks of one response body
MaxBody == 1
\* lines of a response body handed to the decoder
MaxDecodeLines == 2

----------------------------------------------------------------------------
(* Text *)

NL == "\n"
SP == " "
DATA == "data: "

Whitespace == {NL, SP}

\* JSON texts and the values JSON.parse gives for them
JSONTexts == {"null", "false", "0", "\"\"", "{\"id\":1}", "{\"id\":2}"}

SyntaxError == <<"SyntaxError", 0>>

ParseTable ==
  [t \in JSONTexts |->
     CASE t = "null" -> <<"null", 0>>
       [] t = "false" -> <<"boolean", 0>>
       [] t = "0" -> <<"number", 0>>
       [] t = "\"\"" -> <<"string", 0>>
       [] t = "{\"id\":1}" -> <<"object", 1>>
       [] t = "{\"id\":2}" -> <<"object", 2>>]

RECURSIVE TrimStart(_)
TrimStart(s) ==
  IF s # <<>> /\ Head(s) \in Whitespace THEN TrimStart(Tail(s)) ELSE s

RECURSIVE TrimEnd(_)
TrimEnd(s) ==
  IF s # <<>> /\ s[Len(s)] \in Whitespace
  THEN TrimEnd(SubSeq(s, 1, Len(s) - 1)) ELSE s

\* String.prototype.trim
Trim(s) == TrimEnd(TrimStart(s))

\* JSON.parse: one JSON text, with whitespace around it allowed
JSONParse(s) ==
  LET t == Trim(s)
  IN IF Len(t) = 1 /\ t[1] \in JSONTexts THEN ParseTable[t[1]] ELSE SyntaxError

\* JSON.stringify of a parsed value
JSONStringify(v) == CHOOSE t \in JSONTexts : ParseTable[t] = v

\* String.prototype.split('\n'): the segments between the newlines
RECURSIVE SplitFrom(_, _)
SplitFrom(s, cur) ==
  IF s = <<>> THEN <<cur>>
  ELSE IF Head(s) = NL THEN <<cur>> \o SplitFrom(Tail(s), <<>>)
  ELSE SplitFrom(Tail(s), Append(cur, Head(s)))

Split(s) == SplitFrom(s, <<>>)

\* String.prototype.startsWith('data: ')
StartsWithData(s) == s # <<>> /\ Head(s) = DATA

\* JavaScript truthiness of a JSON value: null, false, 0 and "" are falsy
Truthy(v) ==
  CASE v[1] = "null" -> FALSE
    [] v[1] = "boolean" -> v[2] # 0
    [] v[1] = "number" -> v[2] # 0
    [] v[1] = "string" -> v[2] # 0
    [] v[1] = "object" -> TRUE

Last(s) == s[Len(s)]
Front(s) == SubSeq(s, 1, Len(s) - 1)

----------------------------------------------------------------------------
(* State *)

VARIABLES
  sessionId,        \* let sessionId: string | null
  pendingRequests,  \* let pendingRequests
  stdinClosed,      \* let stdinClosed
  buffer,           \* let buffer
  proc,             \* "running", or "exit0" after process.exit(0)
  reqs,             \* the HTTP requests issued, in dispatch order
  microtasks,       \* promise reaction jobs not yet run
  stdout,           \* lines written to process.stdout
  stderr,           \* diagnostics written to process.stderr
  writer,           \* history: writer[k] is the request stdout[k] belongs to
  lines,            \* history: the lines handed to processLine
  input,            \* history: all text received on stdin
  arrivals,         \* history: <<request, session header>> of each response, in arrival order
  lock,             \* WalletJson: this._lock, a promise
  settled,          \* WalletJson: the promises that are resolved
  file,             \* WalletJson: the wallet file
  calls,            \* WalletJson: the updateWallet calls, in call order
  saves             \* history: the calls whose section saved the wallet, in order

bridgeVars == <<sessionId, pendingRequests, stdinClosed, buffer, proc, reqs,
                microtasks, stdout, stderr, writer, lines, input, arrivals>>

walletVars == <<lock, settled, file, calls, saves>>

vars == <<bridgeVars, walletVars>>

\* the wallet file when it does not exist
Absent == <<"absent">>

\* A WalletJson after construction, no wallet file written yet: _lock is
\* Promise.resolve(), promise 0
NewWalletJson ==
  /\ lock = 0
  /\ settled = {0}
  /\ file = Absent
  /\ calls = <<>>
  /\ saves = <<>>

Null == <<"null", "">>
Undefined == <<"undefined", "">>

\* what res.headers['mcp-session-id'] can be
SessionHeaders ==
  {Undefined, <<"string", "">>, <<"string", "S1">>, <<"string", "S2">>}

\* what res.headers['content-type'] can be
ContentTypes ==
  {Undefined, <<"string", "application/json">>,
   <<"string", "text/event-stream; charset=utf-8">>}

\* err.message of a network-level error
NetErrors == {"connect ECONNREFUSED", "socket hang up"}

\* the tokens of stdin
InTokens == {NL, SP, "{\"id\":1}", "{bad"}

\* the 'data' chunks of a response body
BodyChunks ==
  {<<"{\"id\":1}">>,
   <<DATA, "{\"id\":2}", NL, DATA, "0", NL, DATA, "{\"id\":1}", NL>>}

SeqsUpTo(S, n) == UNION {[1..k -> S] : k \in 0..n}

Chunks == SeqsUpTo(InTokens, MaxChunk) \ {<<>>}

BaseHeaders ==
  [h \in {"Content-Type", "Accept"} |->
     IF h = "Content-Type" THEN "application/json"
     ELSE "application/json, text/event-stream"]

----------------------------------------------------------------------------
(* Functions of the bridge *)

\* parseSSE with the try around the loop: the first line that fails to parse
\* ends the decoding
RECURSIVE ParseSSELinesStopsAtError(_)
ParseSSELinesStopsAtError(ls) ==
  IF ls = <<>> THEN <<>>
  ELSE LET line == Head(ls)
           v == JSONParse(Tail(line))
       IN IF ~StartsWithData(line) THEN ParseSSELinesStopsAtError(Tail(ls))
          ELSE IF v = SyntaxError THEN <<>>
          ELSE <<v>> \o ParseSSELinesStopsAtError(Tail(ls))

\* parseSSE
RECURSIVE ParseSSELines(_)
ParseSSELines(ls) ==
  IF ls = <<>> THEN <<>>
  ELSE LET line == Head(ls)
           v == JSONParse(Tail(line))
       IN (IF StartsWithData(line) /\ v # SyntaxError THEN <<v>> ELSE <<>>)
          \o ParseSSELines(Tail(ls))

ParseSSE(data) == ParseSSELines(Split(data))

\* contentType.includes('text/event-stream')
IncludesEventStream(ct) ==
  ct \in {"text/event-stream", "text/event-stream; charset=utf-8"}

\* the 'end' handler without the catch around JSON.parse(body): the error
\* is what the promise settles with
DecodeNoCatch(contentType, body) ==
  IF Trim(body) = <<>> THEN <<>>
  ELSE IF IncludesEventStream(contentType) THEN ParseSSE(body)
  ELSE <<JSONParse(body)>>

\* the value the res 'end' handler resolves the promise with
Decode(contentType, body) ==
  IF Trim(body) = <<>> THEN <<>>
  ELSE IF IncludesEventStream(contentType) THEN ParseSSE(body)
  ELSE IF JSONParse(body) # SyntaxError THEN <<JSONParse(body)>>
  ELSE <<>>

\* checkExit without the test of pendingRequests
CheckExitIgnoresPending(closed, pending, p) ==
  IF closed THEN "exit0" ELSE p

\* checkExit
CheckExit(closed, pending, p) ==
  IF closed /\ pending = 0 THEN "exit0" ELSE p

\* headers without the session header
RequestHeadersNoSession(sid) == BaseHeaders

\* the headers sendRequest builds
RequestHeaders(sid) ==
  IF sid # Null /\ sid[2] # ""
  THEN [h \in DOMAIN BaseHeaders \cup {"Mcp-Session-Id"} |->
          IF h = "Mcp-Session-Id" THEN sid[2] ELSE BaseHeaders[h]]
  ELSE BaseHeaders

\* an update that keeps the first session id
CaptureSessionFirstWins(sid, newSessionId) ==
  IF sid = Null /\ newSessionId # Undefined /\ newSessionId[2] # ""
     /\ newSessionId[1] = "string"
  THEN newSessionId ELSE sid

\* the response callback's update of sessionId
CaptureSession(sid, newSessionId) ==
  IF newSessionId # Undefined /\ newSessionId[2] # ""
     /\ newSessionId[1] = "string"
  THEN newSessionId ELSE sid

\* sendRequest up to the creation of the promise.  st is the part of the
\* state the synchronous part of processLine works on.
SendRequest(st, data) ==
  [st EXCEPT
     !.pendingRequests = @ + 1,
     !.reqs = Append(@, [data |-> data,
                         headers |-> RequestHeaders(st.sessionId),
                         sent |-> JSONStringify(data),
                         phase |-> "sent",
                         contentType |-> "",
                         body |-> <<>>,
                         chunks |-> 0,
                         events |-> <<>>])]

\* a diagnostic that drops the error's message
DiagnosticGeneric(errorMsg) == <<"Error: ", "request failed">>

\* the text the catch block writes to stderr
Diagnostic(errorMsg) == <<"Error: ", errorMsg>>

\* the diagnostic of a line JSON.parse rejects
ParseDiagnostic == Diagnostic("Unexpected token")

\* processLine counting the line as pending before it is parsed
ProcessLineCountsFirst(st, line) ==
  IF st.proc # "running" THEN st
  ELSE LET h == [st EXCEPT !.lines = Append(@, line)]
       IN IF Trim(line) = <<>> THEN h
          ELSE IF JSONParse(line) = SyntaxError
          THEN [h EXCEPT
                  !.pendingRequests = @ + 1,
                  !.stderr = Append(@, ParseDiagnostic),
                  !.proc = CheckExit(h.stdinClosed, h.pendingRequests + 1, @)]
          ELSE SendRequest(h, JSONParse(line))

\* processLine that does not dispatch while a request is pending
ProcessLineSerialized(st, line) ==
  IF st.proc # "running" THEN st
  ELSE LET h == [st EXCEPT !.lines = Append(@, line)]
       IN IF Trim(line) = <<>> THEN h
          ELSE IF JSONParse(line) = SyntaxError
          THEN [h EXCEPT
                  !.stderr = Append(@, ParseDiagnostic),
                  !.proc = CheckExit(h.stdinClosed, h.pendingRequests, @)]
          ELSE IF h.pendingRequests > 0 THEN h
          ELSE SendRequest(h, JSONParse(line))

\* processLine without its blank-line test
ProcessLineNoTrim(st, line) ==
  IF st.proc # "running" THEN st
  ELSE LET h == [st EXCEPT !.lines = Append(@, line)]
       IN IF JSONParse(line) = SyntaxError
          THEN [h EXCEPT
                  !.stderr = Append(@, ParseDiagnostic),
                  !.proc = CheckExit(h.stdinClosed, h.pendingRequests, @)]
          ELSE SendRequest(h, JSONParse(line))

\* processLine up to its first await
ProcessLine(st, line) ==
  IF st.proc # "running" THEN st
  ELSE LET h == [st EXCEPT !.lines = Append(@, line)]
       IN IF Trim(line) = <<>> THEN h
          ELSE IF JSONParse(line) = SyntaxError
          THEN [h EXCEPT
                  !.stderr = Append(@, ParseDiagnostic),
                  !.proc = CheckExit(h.stdinClosed, h.pendingRequests, @)]
          ELSE SendRequest(h, JSONParse(line))

RECURSIVE ProcessLines(_, _)
ProcessLines(st, ls) ==
  IF ls = <<>> THEN st
  ELSE ProcessLines(ProcessLine(st, Head(ls)), Tail(ls))

Sync ==
  [sessionId |-> sessionId, pendingRequests |-> pendingRequests,
   stdinClosed |-> stdinClosed, proc |-> proc, reqs |-> reqs,
   stderr |-> stderr, lines |-> lines]

\* an output loop that walks the events from the last to the first
RECURSIVE OutputLinesReversed(_)
OutputLinesReversed(events) ==
  IF events = <<>> THEN <<>>
  ELSE OutputLinesReversed(Tail(events))
       \o (IF Truthy(Head(events)) THEN <<JSONStringify(Head(events))>> ELSE <<>>)

\* the lines of `events` the output loop writes
RECURSIVE OutputLines(_)
OutputLines(events) ==
  IF events = <<>> THEN <<>>
  ELSE (IF Truthy(Head(events)) THEN <<JSONStringify(Head(events))>> ELSE <<>>)
       \o OutputLines(Tail(events))

----------------------------------------------------------------------------
(* Initial state *)

Init ==
  /\ sessionId = Null
  /\ pendingRequests = 0
  /\ stdinClosed = FALSE
  /\ buffer = <<>>
  /\ proc = "running"
  /\ reqs = <<>>
  /\ microtasks = <<>>
  /\ stdout = <<>>
  /\ stderr = <<<<"Archon MCP Bridge - ", "MCP_URL">>>>
  /\ writer = <<>>
  /\ lines = <<>>
  /\ input = <<>>
  /\ arrivals = <<>>
  /\ NewWalletJson

\* an I/O event is delivered only to a running process whose promise jobs
\* have all run
Idle == proc = "running" /\ microtasks = <<>>

----------------------------------------------------------------------------
(* Event handlers *)

\* a 'data' handler that forgets the unterminated remainder
StdinDataDropsRemainder(chunk) ==
  /\ Idle
  /\ ~stdinClosed
  /\ Len(input) + Len(chunk) <= MaxInput
  /\ LET ls == Split(buffer \o chunk)
         st == ProcessLines(Sync, Front(ls))
     IN /\ Len(st.reqs) <= MaxReq
        /\ buffer' = <<>>
        /\ pendingRequests' = st.pendingRequests
        /\ reqs' = st.reqs
        /\ stderr' = st.stderr
        /\ proc' = st.proc
        /\ lines' = st.lines
  /\ input' = input \o chunk
  /\ UNCHANGED <<sessionId, stdinClosed, microtasks, stdout, writer, arrivals>>
  /\ UNCHANGED walletVars

\* process.stdin.on('data')
StdinData(chunk) ==
  /\ Idle
  /\ ~stdinClosed
  /\ Len(input) + Len(chunk) <= MaxInput
  /\ LET ls == Split(buffer \o chunk)
         st == ProcessLines(Sync, Front(ls))
     IN /\ Len(st.reqs) <= MaxReq
        /\ buffer' = Last(ls)
        /\ pendingRequests' = st.pendingRequests
        /\ reqs' = st.reqs
        /\ stderr' = st.stderr
        /\ proc' = st.proc
        /\ lines' = st.lines
  /\ input' = input \o chunk
  /\ UNCHANGED <<sessionId, stdinClosed, microtasks, stdout, writer, arrivals>>
  /\ UNCHANGED walletVars

\* an 'end' handler that sets the flag and does not evaluate the exit
\* condition
StdinEndNoCheck ==
  /\ Idle
  /\ ~stdinClosed
  /\ LET st == IF Trim(buffer) # <<>> THEN ProcessLine(Sync, buffer) ELSE Sync
     IN /\ Len(st.reqs) <= MaxReq
        /\ pendingRequests' = st.pendingRequests
        /\ reqs' = st.reqs
        /\ stderr' = st.stderr
        /\ lines' = st.lines
        /\ stdinClosed' = TRUE
        /\ proc' = st.proc
  /\ UNCHANGED <<sessionId, buffer, microtasks, stdout, writer, input, arrivals>>
  /\ UNCHANGED walletVars

\* process.stdin.on('end')
StdinEnd ==
  /\ Idle
  /\ ~stdinClosed
  /\ LET st == IF Trim(buffer) # <<>> THEN ProcessLine(Sync, buffer) ELSE Sync
     IN /\ Len(st.reqs) <= MaxReq
        /\ pendingRequests' = st.pendingRequests
        /\ reqs' = st.reqs
        /\ stderr' = st.stderr
        /\ lines' = st.lines
        /\ stdinClosed' = TRUE
        /\ proc' = CheckExit(TRUE, st.pendingRequests, st.proc)
  /\ UNCHANGED <<sessionId, buffer, microtasks, stdout, writer, input, arrivals>>
  /\ UNCHANGED walletVars

\* a response callback that does not look at the session header
ResHeadersNoCapture(i, newSessionId, ct) ==
  /\ Idle
  /\ reqs[i].phase = "sent"
  /\ sessionId' = sessionId
  /\ reqs' = [reqs EXCEPT ![i].phase = "open",
                          ![i].contentType = IF ct = Undefined THEN "" ELSE ct[2]]
  /\ arrivals' = Append(arrivals, <<i, newSessionId>>)
  /\ UNCHANGED <<pendingRequests, stdinClosed, buffer, proc, microtasks,
                 stdout, stderr, writer, lines, input>>
  /\ UNCHANGED walletVars

\* the response callback of client.request
ResHeaders(i, newSessionId, ct) ==
  /\ Idle
  /\ reqs[i].phase = "sent"
  /\ sessionId' = CaptureSession(sessionId, newSessionId)
  /\ reqs' = [reqs EXCEPT ![i].phase = "open",
                          ![i].contentType = IF ct = Undefined THEN "" ELSE ct[2]]
  /\ arrivals' = Append(arrivals, <<i, newSessionId>>)
  /\ UNCHANGED <<pendingRequests, stdinClosed, buffer, proc, microtasks,
                 stdout, stderr, writer, lines, input>>
  /\ UNCHANGED walletVars

\* res.on('data')
ResData(i, chunk) ==
  /\ Idle
  /\ reqs[i].phase = "open"
  /\ reqs[i].chunks < MaxBody
  /\ reqs' = [reqs EXCEPT ![i].body = @ \o chunk, ![i].chunks = @ + 1]
  /\ UNCHANGED <<sessionId, pendingRequests, stdinClosed, buffer, proc,
                 microtasks, stdout, stderr, writer, lines, input, arrivals>>
  /\ UNCHANGED walletVars

\* res.on('end')
ResEnd(i) ==
  /\ Idle
  /\ reqs[i].phase = "open"
  /\ pendingRequests' = pendingRequests - 1
  /\ LET events == Decode(reqs[i].contentType, reqs[i].body)
     IN /\ reqs' = [reqs EXCEPT ![i].phase = "ended", ![i].events = events]
        /\ microtasks' = Append(microtasks, <<i, "resolve", events>>)
  /\ UNCHANGED <<sessionId, stdinClosed, buffer, proc, stdout, stderr,
                 writer, lines, input, arrivals>>
  /\ UNCHANGED walletVars

\* an 'error' handler that rejects without the decrement
ReqErrorNoDecrement(i, message) ==
  /\ Idle
  /\ reqs[i].phase \in {"sent", "open"}
  /\ reqs' = [reqs EXCEPT ![i].phase = "failed", ![i].contentType = "",
                          ![i].body = <<>>, ![i].chunks = 0]
  /\ microtasks' = Append(microtasks, <<i, "reject", message>>)
  /\ UNCHANGED <<sessionId, pendingRequests, stdinClosed, buffer, proc,
                 stdout, stderr, writer, lines, input, arrivals>>
  /\ UNCHANGED walletVars

\* an 'error' handler that also marks the input closed
ReqErrorClosesInput(i, message) ==
  /\ Idle
  /\ reqs[i].phase \in {"sent", "open"}
  /\ pendingRequests' = pendingRequests - 1
  /\ stdinClosed' = TRUE
  /\ reqs' = [reqs EXCEPT ![i].phase = "failed", ![i].contentType = "",
                          ![i].body = <<>>, ![i].chunks = 0]
  /\ microtasks' = Append(microtasks, <<i, "reject", message>>)
  /\ UNCHANGED <<sessionId, buffer, proc, stdout, stderr, writer, lines,
                 input, arrivals>>
  /\ UNCHANGED walletVars

\* req.on('error')
ReqError(i, message) ==
  /\ Idle
  /\ reqs[i].phase \in {"sent", "open"}
  /\ pendingRequests' = pendingRequests - 1
  /\ reqs' = [reqs EXCEPT ![i].phase = "failed", ![i].contentType = "",
                          ![i].body = <<>>, ![i].chunks = 0]
  /\ microtasks' = Append(microtasks, <<i, "reject", message>>)
  /\ UNCHANGED <<sessionId, stdinClosed, buffer, proc, stdout, stderr,
                 writer, lines, input, arrivals>>
  /\ UNCHANGED walletVars

\* processLine with checkExit at the end of the try block instead of in
\* the finally block
RunMicrotaskCheckOnSuccess ==
  /\ proc = "running"
  /\ microtasks # <<>>
  /\ LET job == Head(microtasks)
         i == job[1]
         written == IF job[2] = "resolve" THEN OutputLines(job[3]) ELSE <<>>
     IN /\ stdout' = stdout \o written
        /\ writer' = writer \o [k \in 1..Len(written) |-> i]
        /\ stderr' = IF job[2] = "reject"
                     THEN Append(stderr, Diagnostic(job[3])) ELSE stderr
        /\ reqs' = [reqs EXCEPT
                      ![i].phase =
                        IF job[2] = "resolve" THEN "written" ELSE "reported",
                      ![i].contentType = "", ![i].body = <<>>,
                      ![i].chunks = 0]
        /\ proc' = IF job[2] = "resolve"
                   THEN CheckExit(stdinClosed, pendingRequests, proc) ELSE proc
  /\ microtasks' = Tail(microtasks)
  /\ UNCHANGED <<sessionId, pendingRequests, stdinClosed, buffer, lines,
                 input, arrivals>>
  /\ UNCHANGED walletVars

\* processLine whose catch block writes the diagnostic to stdout
RunMicrotaskErrorToStdout ==
  /\ proc = "running"
  /\ microtasks # <<>>
  /\ LET job == Head(microtasks)
         i == job[1]
         written == IF job[2] = "resolve" THEN OutputLines(job[3])
                    ELSE <<Diagnostic(job[3])>>
     IN /\ stdout' = stdout \o written
        /\ writer' = writer \o [k \in 1..Len(written) |-> i]
        /\ stderr' = stderr
        /\ reqs' = [reqs EXCEPT
                      ![i].phase =
                        IF job[2] = "resolve" THEN "written" ELSE "reported",
                      ![i].contentType = "", ![i].body = <<>>,
                      ![i].chunks = 0]
  /\ microtasks' = Tail(microtasks)
  /\ proc' = CheckExit(stdinClosed, pendingRequests, proc)
  /\ UNCHANGED <<sessionId, pendingRequests, stdinClosed, buffer, lines,
                 input, arrivals>>
  /\ UNCHANGED walletVars

\* processLine behind `await sendRequest(request)`: the output loop or the
\* catch block, then the finally block
RunMicrotask ==
  /\ proc = "running"
  /\ microtasks # <<>>
  /\ LET job == Head(microtasks)
         i == job[1]
         written == IF job[2] = "resolve" THEN OutputLines(job[3]) ELSE <<>>
     IN /\ stdout' = stdout \o written
        /\ writer' = writer \o [k \in 1..Len(written) |-> i]
        /\ stderr' = IF job[2] = "reject"
                     THEN Append(stderr, Diagnostic(job[3])) ELSE stderr
        /\ reqs' = [reqs EXCEPT
                      ![i].phase =
                        IF job[2] = "resolve" THEN "written" ELSE "reported",
                      ![i].contentType = "", ![i].body = <<>>,
                      ![i].chunks = 0]
  /\ microtasks' = Tail(microtasks)
  /\ proc' = CheckExit(stdinClosed, pendingRequests, proc)
  /\ UNCHANGED <<sessionId, pendingRequests, stdinClosed, buffer, lines,
                 input, arrivals>>
  /\ UNCHANGED walletVars

Next ==
  \/ \E chunk \in Chunks : StdinData(chunk)
  \/ StdinEnd
  \/ \E i \in DOMAIN reqs, s \in SessionHeaders, ct \in ContentTypes :
       ResHeaders(i, s, ct)
  \/ \E i \in DOMAIN reqs, chunk \in BodyChunks : ResData(i, chunk)
  \/ \E i \in DOMAIN reqs : ResEnd(i)
  \/ \E i \in DOMAIN reqs, m \in NetErrors : ReqError(i, m)
  \/ RunMicrotask

Spec == Init /\ [][Next]_vars

\* The runtime runs every queued promise job.  Nothing is assumed of the
\* environment: input may never end and a request may never complete.
LiveSpec == Spec /\ WF_vars(RunMicrotask)

\* The signals of the claim.  The bridge installs no handler for either
\* (its only process.on/stdin.on registrations are the stdin 'data' and 'end'
\* handlers), so the runtime's default disposition applies.
Signals == {"SIGINT", "SIGTERM"}

\* delivery of a signal with no handler installed: the process is terminated
\* by the signal in whatever state it is; it does not exit through
\* process.exit(0)
Signal(sig) ==
  /\ proc = "running"
  /\ proc' = sig
  /\ UNCHANGED <<sessionId, pendingRequests, stdinClosed, buffer, reqs,
                 microtasks, stdout, stderr, writer, lines, input, arrivals>>
  /\ UNCHANGED walletVars

SignalNext ==
  \/ Next
  \/ \E sig \in Signals : Signal(sig)

\* the bridge with signals delivered at any time
SignalSpec == Init /\ [][SignalNext]_vars

\* The lines a response body is made of in the decoder's specification
DecodeLines ==
  {<<>>, <<SP>>, <<"{\"id\":1}">>, <<"not-json">>,
   <<DATA, "{\"id\":1}">>, <<DATA, "{\"id\":2}", SP>>, <<DATA, "null">>,
   <<DATA, "not-json">>, <<SP, DATA, "{\"id\":2}">>}

\* String.prototype.join('\n')
RECURSIVE Join(_)
Join(ls) ==
  IF ls = <<>> THEN <<>>
  ELSE IF Len(ls) = 1 THEN ls[1]
  ELSE ls[1] \o <<NL>> \o Join(Tail(ls))

\* the response bodies of the decoder's specification
DecodeBodies == {Join(ls) : ls \in SeqsUpTo(DecodeLines, MaxDecodeLines)}

\* One request has been dispatched and its response is complete but for its
\* 'end' event; the body and the content type are any of the bounded sets.
DecodeInit ==
  /\ sessionId = Null
  /\ pendingRequests = 1
  /\ stdinClosed = FALSE
  /\ buffer = <<>>
  /\ proc = "running"
  /\ \E body \in DecodeBodies, ct \in ContentTypes :
       reqs = <<[data |-> <<"object", 1>>,
                 headers |-> RequestHeaders(Null),
                 sent |-> JSONStringify(<<"object", 1>>),
                 phase |-> "open",
                 contentType |-> IF ct = Undefined THEN "" ELSE ct[2],
                 body |-> body,
                 chunks |-> MaxBody,
                 events |-> <<>>]>>
  /\ microtasks = <<>>
  /\ stdout = <<>>
  /\ stderr = <<<<"Archon MCP Bridge - ", "MCP_URL">>>>
  /\ writer = <<>>
  /\ lines = <<<<"{\"id\":1}">>>>
  /\ input = <<"{\"id\":1}", NL>>
  /\ arrivals = <<<<1, Undefined>>>>
  /\ NewWalletJson

DecodeNext ==
  \/ \E i \in DOMAIN reqs : ResEnd(i)
  \/ RunMicrotask

\* the decoder applied to every body and content type of the bounded sets
DecodeSpec == DecodeInit /\ [][DecodeNext]_vars

----------------------------------------------------------------------------
(* WalletJson (src/unnamed/part_000): the wallet file and updateWallet.    *)
(* A promise is named by a number: 0 is the Promise.resolve() of the       *)
(* constructor, k the promise the k-th updateWallet call stores in _lock.  *)
(* Each part of updateWallet between two awaits is one action.             *)

\* updateWallet calls in one run
MaxCalls == 3

\* What a mutator does: return (or resolve), throw before its first await,
\* return a promise that is rejected, return a promise that never settles
Mutators == {"ok", "throws", "rejects", "never"}

\* the wallet the application saves first
EmptyWallet == <<"wallet", <<>>>>

\* loadWallet
LoadWallet == IF file = Absent THEN Null ELSE file

\* saveWallet: the file it leaves
SaveWalletFile(wallet, overwrite) ==
  IF file # Absent /\ ~overwrite THEN file ELSE wallet

\* the mutation call k makes to the wallet it was given
Mutate(wallet, k) == <<"wallet", Append(wallet[2], k)>>

\* saveWallet called by the application, outside updateWallet
SaveWallet(overwrite) ==
  /\ file' = SaveWalletFile(EmptyWallet, overwrite)
  /\ UNCHANGED <<lock, settled, calls, saves>>
  /\ UNCHANGED bridgeVars

\* updateWallet up to `await release`
UpdateWallet(mutator) ==
  /\ Len(calls) < MaxCalls
  /\ calls' = Append(calls, [pc |-> "await release", release |-> lock,
                             mutator |-> mutator, wallet |-> Null])
  /\ lock' = Len(calls) + 1
  /\ UNCHANGED <<settled, file, saves>>
  /\ UNCHANGED bridgeVars

\* behind `await release`: loadWallet is called and reads the file
AfterRelease(k) ==
  /\ calls[k].pc = "await release"
  /\ calls[k].release \in settled
  /\ calls' = [calls EXCEPT ![k].pc = "await loadWallet",
                            ![k].wallet = LoadWallet]
  /\ UNCHANGED <<lock, settled, file, saves>>
  /\ UNCHANGED bridgeVars

\* behind `await this.loadWallet()`, with a try block that has no finally:
\* resolve is called only at the end of the try block
AfterLoadNoFinally(k) ==
  /\ calls[k].pc = "await loadWallet"
  /\ IF calls[k].wallet = Null
     THEN /\ calls' = [calls EXCEPT ![k].pc = "resolved"]
          /\ settled' = settled
     ELSE IF calls[k].mutator = "throws"
     THEN /\ calls' = [calls EXCEPT ![k].pc = "rejected"]
          /\ settled' = settled
     ELSE /\ calls' = [calls EXCEPT ![k].pc = "await mutator"]
          /\ settled' = settled
  /\ UNCHANGED <<lock, file, saves>>
  /\ UNCHANGED bridgeVars

\* behind `await this.loadWallet()`: no wallet, or the call of the mutator;
\* the finally block resolves the call's promise when the try block is left
AfterLoad(k) ==
  /\ calls[k].pc = "await loadWallet"
  /\ IF calls[k].wallet = Null
     THEN /\ calls' = [calls EXCEPT ![k].pc = "resolved"]
          /\ settled' = settled \cup {k}
     ELSE IF calls[k].mutator = "throws"
     THEN /\ calls' = [calls EXCEPT ![k].pc = "rejected"]
          /\ settled' = settled \cup {k}
     ELSE /\ calls' = [calls EXCEPT ![k].pc = "await mutator"]
          /\ settled' = settled
  /\ UNCHANGED <<lock, file, saves>>
  /\ UNCHANGED bridgeVars

\* behind `await mutator(wallet)`: the mutator's promise is settled; when it
\* is fulfilled saveWallet is called and writes the file
AfterMutator(k) ==
  /\ calls[k].pc = "await mutator"
  /\ calls[k].mutator # "never"
  /\ IF calls[k].mutator = "rejects"
     THEN /\ calls' = [calls EXCEPT ![k].pc = "rejected"]
          /\ settled' = settled \cup {k}
          /\ UNCHANGED <<file, saves>>
     ELSE /\ calls' = [calls EXCEPT ![k].pc = "await saveWallet",
                                    ![k].wallet = Mutate(@, k)]
          /\ file' = SaveWalletFile(Mutate(calls[k].wallet, k), TRUE)
          /\ saves' = Append(saves, k)
          /\ settled' = settled
  /\ lock' = lock
  /\ UNCHANGED bridgeVars

\* behind `await this.saveWallet(wallet, true)`: the finally block
AfterSave(k) ==
  /\ calls[k].pc = "await saveWallet"
  /\ calls' = [calls EXCEPT ![k].pc = "resolved"]
  /\ settled' = settled \cup {k}
  /\ UNCHANGED <<lock, file, saves>>
  /\ UNCHANGED bridgeVars

\* the promise jobs of updateWallet
WalletJob ==
  \E k \in DOMAIN calls :
    AfterRelease(k) \/ AfterLoad(k) \/ AfterMutator(k) \/ AfterSave(k)

WalletNext ==
  \/ \E overwrite \in BOOLEAN : SaveWallet(overwrite)
  \/ \E mutator \in Mutators : UpdateWallet(mutator)
  \/ \E k \in DOMAIN calls : AfterRelease(k)
  \/ \E k \in DOMAIN calls : AfterLoad(k)
  \/ \E k \in DOMAIN calls : AfterMutator(k)
  \/ \E k \in DOMAIN calls : AfterSave(k)

\* one WalletJson and its callers
WalletSpec == Init /\ [][WalletNext]_vars

\* The runtime runs every promise job, and a mutator's promise that settles
\* does settle.  Nothing is assumed of the callers.
WalletLiveSpec == WalletSpec /\ WF_vars(WalletJob)

TypeOK ==
  /\ pendingRequests \in Int
  /\ stdinClosed \in BOOLEAN
  /\ proc \in {"running", "exit0"} \cup Signals
  /\ Len(writer) = Len(stdout)
  /\ lock \in 0..MaxCalls
  /\ settled \subseteq 0..MaxCalls
  /\ Len(calls) <= MaxCalls

----------------------------------------------------------------------------
(* Helpers of the properties *)

S1 == <<"string", "S1">>
S2 == <<"string", "S2">>

\* the requests whose call has been issued and has not completed
InFlight == {i \in DOMAIN reqs : reqs[i].phase \in {"sent", "open"}}

\* the output lines written for request i, in the order written
RECURSIVE LinesOf(_, _)
LinesOf(i, k) ==
  IF k > Len(stdout) THEN <<>>
  ELSE (IF writer[k] = i THEN <<stdout[k]>> ELSE <<>>) \o LinesOf(i, k + 1)

\* the serializations of the events that are not null, in order
RECURSIVE NonNullLines(_)
NonNullLines(events) ==
  IF events = <<>> THEN <<>>
  ELSE (IF Head(events)[1] # "null" THEN <<JSONStringify(Head(events))>> ELSE <<>>)
       \o NonNullLines(Tail(events))

\* the lines a stdin handler handed to processLine in this step
NewLines == SubSeq(lines', Len(lines) + 1, Len(lines'))

IsInvalidLine(l) == Trim(l) # <<>> /\ JSONParse(l) = SyntaxError
IsValidLine(l) == Trim(l) # <<>> /\ JSONParse(l) # SyntaxError

Count(s, P(_)) == Cardinality({k \in DOMAIN s : P(s[k])})

----------------------------------------------------------------------------
(* Properties *)

\* C1: when the process has exited through the exit condition, the output
\* lines written for each dispatched request are exactly the serializations
\* of the events decoded from its response that are not null, one line per
\* event (none lost, none twice).
C1_ExactlyOneLinePerEvent ==
  proc = "exit0" =>
    \A i \in DOMAIN reqs :
      Len(LinesOf(i, 1)) = Len(NonNullLines(reqs[i].events))

\* C2: the process terminates only in a step that leaves stdinClosed = TRUE
\* and pendingRequests = 0; a malformed line, a network error or an
\* undecodable body does not terminate it otherwise.
C2_ExitOnlyWhenDrained ==
  [][(proc = "running" /\ proc' = "exit0")
       => (stdinClosed' /\ pendingRequests' = 0)]_vars

\* a run that saw a malformed line and a network error and then exited
C2_Witness ==
  /\ proc = "exit0"
  /\ \E k \in DOMAIN stderr : stderr[k] = ParseDiagnostic
  /\ \E i \in DOMAIN reqs : reqs[i].phase = "reported"

\* C3: once the input stream has ended and every dispatched request has
\* completed (response end or network error), the process eventually
\* terminates with status 0; and it never stays running forever once
\* stdinClosed = TRUE and pendingRequests = 0.
C3_EventuallyExits ==
  /\ (stdinClosed /\ InFlight = {}) ~> (proc = "exit0")
  /\ (stdinClosed /\ pendingRequests = 0) ~> (proc = "exit0")

\* the exit condition holds while the process is still running: the last
\* response has ended and processLine has not yet resumed
C3_Witness ==
  /\ stdinClosed
  /\ pendingRequests = 0
  /\ proc = "running"
  /\ microtasks # <<>>

\* C4: pendingRequests is never negative and equals the number of requests
\* that were dispatched and have not completed, whether they complete by a
\* response end or by a network error.
C4_PendingCountsInFlight ==
  /\ pendingRequests >= 0
  /\ pendingRequests = Cardinality(InFlight)

\* one request completed by a response end and one by a network error
C4_Witness ==
  /\ pendingRequests = 0
  /\ \E i, j \in DOMAIN reqs :
       reqs[i].phase = "written" /\ reqs[j].phase = "reported"

RECURSIVE LastSupplied(_)
LastSupplied(a) ==
  IF a = <<>> THEN Null
  ELSE LET h == a[Len(a)][2]
       IN IF h[1] = "string" /\ h[2] # "" THEN h
          ELSE LastSupplied(SubSeq(a, 1, Len(a) - 1))

\* C6: sessionId starts null, always equals the session header of the
\* response whose headers arrived last among those that supplied one (in
\* arrival order, not dispatch order), is unchanged by a response without
\* one, and is never reset to null once set.
C6_LastWriterWins ==
  /\ [](sessionId = LastSupplied(arrivals))
  /\ [][sessionId # Null => sessionId' # Null]_vars

\* the response to the second request arrived first with S2, then the
\* response to the first request with S1, then nothing changed the token
C6_Witness ==
  /\ arrivals = <<<<2, S2>>, <<1, S1>>>>
  /\ sessionId = S1

\* C7: a stdin step writes one parse diagnostic to stderr for every
\* non-blank line that is not JSON; when every line it hands over is such a
\* line it writes nothing to stdout, issues no request, leaves
\* pendingRequests and sessionId unchanged, and at end of input the process
\* exits exactly when no request is pending.
C7_MalformedLineOnlyDiagnoses ==
  [][NewLines # <<>> =>
       /\ Len(stderr') = Len(stderr) + Count(NewLines, IsInvalidLine)
       /\ \A k \in (Len(stderr) + 1)..Len(stderr') : stderr'[k] = ParseDiagnostic
       /\ (\A k \in DOMAIN NewLines : IsInvalidLine(NewLines[k]))
          => /\ stdout' = stdout
             /\ reqs' = reqs
             /\ microtasks' = microtasks
             /\ pendingRequests' = pendingRequests
             /\ sessionId' = sessionId
             /\ stdinClosed'
                => (proc' = "exit0" <=> pendingRequests = 0)]_vars

\* a malformed line was the only input: one diagnostic, no request, and the
\* process exited at end of input
C7_Witness ==
  /\ lines = <<<<"{bad">>>>
  /\ stderr = <<<<"Archon MCP Bridge - ", "MCP_URL">>, ParseDiagnostic>>
  /\ reqs = <<>>
  /\ proc = "exit0"

\* C8: a network error on a dispatched request decrements pendingRequests
\* and does not stop the process by itself; processLine then writes one
\* diagnostic with the error's message to stderr, writes nothing to stdout
\* for that request, and evaluates the exit condition: the process keeps
\* running unless input is closed and no request is pending.
C8_NetworkErrorIsolated ==
  [][\A i \in DOMAIN reqs :
       /\ (reqs[i].phase \in {"sent", "open"} /\ reqs'[i].phase = "failed")
          => /\ pendingRequests' = pendingRequests - 1
             /\ proc' = "running"
             /\ stdout' = stdout
             /\ stderr' = stderr
       /\ (reqs[i].phase = "failed" /\ reqs'[i].phase = "reported")
          => /\ Head(microtasks)[1] = i
             /\ stderr' = Append(stderr, <<"Error: ", Head(microtasks)[3]>>)
             /\ stdout' = stdout
             /\ pendingRequests' = pendingRequests
             /\ proc' = IF stdinClosed /\ pendingRequests = 0
                        THEN "exit0" ELSE "running"
       /\ reqs'[i].phase \in {"failed", "reported"}
          => \A k \in DOMAIN writer' : writer'[k] # i]_vars

\* the first request failed and was reported after the input had closed;
\* the process kept running and is receiving the response of the second
C8_Witness ==
  /\ Len(reqs) = 2
  /\ reqs[1].phase = "reported"
  /\ reqs[2].phase = "open"
  /\ reqs[2].body # <<>>
  /\ stderr[Len(stderr)] = <<"Error: ", "socket hang up">>
  /\ stdinClosed
  /\ proc = "running"

\* C9: every valid line a stdin step hands over is dispatched in that step,
\* whatever the number of requests already pending, and the process never
\* exits while a request is pending.
C9_DispatchNotSerialized ==
  [][/\ NewLines # <<>>
        => /\ Len(reqs') = Len(reqs) + Count(NewLines, IsValidLine)
           /\ pendingRequests' = pendingRequests + Count(NewLines, IsValidLine)
           /\ \A i \in (Len(reqs) + 1)..Len(reqs') : reqs'[i].phase = "sent"
     /\ proc' = "exit0" => InFlight' = {}]_vars

\* two requests were pending together, the second completed and was written
\* before the first, and the process exited after both
C9_Witness ==
  /\ Len(reqs) = 2
  /\ Len(writer) = 2
  /\ writer[1] = 2
  /\ writer[2] = 1
  /\ proc = "exit0"

\* C10: the lines written for a response are the serializations of its
\* decoded events that are not null, one line per event, in decoded order.
C10_WritesEveryNonNullEvent ==
  \A i \in DOMAIN reqs :
    reqs[i].phase = "written" => LinesOf(i, 1) = NonNullLines(reqs[i].events)

\* the JSON values of the lines of `body` that begin with "data: " and whose
\* remainder parses, in the order of the lines
DataValues(body) ==
  LET IsDataLine(l) == StartsWithData(l) /\ JSONParse(Tail(l)) # SyntaxError
      kept == SelectSeq(Split(body), IsDataLine)
  IN [k \in 1..Len(kept) |-> JSONParse(Tail(kept[k]))]

\* request i's response ends in this step
Ends(i) == reqs[i].phase = "open" /\ reqs'[i].phase = "ended"

\* C11: for an event-stream content type and a non-blank body the 'end'
\* handler resolves with exactly the JSON values of the lines that begin
\* with "data: " and whose remainder parses, in line order; other lines and
\* parse failures contribute nothing and the promise is never rejected.
C11_SSEDecodesDataLines ==
  [][\A i \in DOMAIN reqs :
       (/\ Ends(i)
        /\ IncludesEventStream(reqs[i].contentType)
        /\ Trim(reqs[i].body) # <<>>)
       => /\ reqs'[i].events = DataValues(reqs[i].body)
          /\ microtasks' = <<<<i, "resolve", DataValues(reqs[i].body)>>>>]_vars

\* an event-stream body of a data line that does not parse and one that
\* does, decoded to the single value
C11_Witness ==
  /\ reqs[1].phase = "ended"
  /\ IncludesEventStream(reqs[1].contentType)
  /\ reqs[1].body = <<DATA, "not-json", NL, DATA, "{\"id\":1}">>
  /\ reqs[1].events = <<<<"object", 1>>>>

\* C12: the 'end' handler always resolves, never rejects: with no event for
\* a blank body whatever the content type, with the one parsed value for a
\* body that is JSON under a content type that is not an event stream, and
\* with no event for a body that is not JSON under such a content type; a
\* response of no event is then completed with no output line and no
\* diagnostic.
C12_DecoderNeverFails ==
  [][\A i \in DOMAIN reqs :
       /\ Ends(i)
          => /\ microtasks' = <<<<i, "resolve", reqs'[i].events>>>>
             /\ Trim(reqs[i].body) = <<>> => reqs'[i].events = <<>>
             /\ (/\ ~IncludesEventStream(reqs[i].contentType)
                 /\ Trim(reqs[i].body) # <<>>
                 /\ JSONParse(reqs[i].body) # SyntaxError)
                => reqs'[i].events = <<JSONParse(reqs[i].body)>>
             /\ (/\ ~IncludesEventStream(reqs[i].contentType)
                 /\ JSONParse(reqs[i].body) = SyntaxError)
                => reqs'[i].events = <<>>
       /\ (/\ reqs[i].phase = "ended"
           /\ reqs'[i].phase # "ended"
           /\ reqs[i].events = <<>>)
          => /\ reqs'[i].phase = "written"
             /\ stdout' = stdout
             /\ stderr' = stderr]_vars

\* a body that is not JSON, under a JSON content type, decoded to no event
\* and the promise resolved
C12_Witness ==
  /\ reqs[1].phase = "ended"
  /\ reqs[1].contentType = "application/json"
  /\ reqs[1].body = <<"not-json", NL, "{\"id\":1}">>
  /\ reqs[1].events = <<>>
  /\ microtasks = <<<<1, "resolve", <<>>>>>>

\* C13: the lines handed to processLine are a function of the input text
\* alone, however it was cut into chunks: while the input is open they are
\* the newline-terminated segments of the text received so far, in order,
\* and the unterminated remainder waits in the buffer; once the input has
\* ended the remainder follows them as the final line when it is not blank.
C13_FramingIgnoresChunking ==
  LET segments == Split(input)
      rest == Last(segments)
  IN /\ ~stdinClosed =>
          /\ lines = Front(segments)
          /\ buffer = rest
     /\ stdinClosed =>
          lines = Front(segments)
                    \o (IF Trim(rest) # <<>> THEN <<rest>> ELSE <<>>)

\* a text that arrived in more than one chunk: its terminated segment was
\* handed over, its remainder waits in the buffer
C13_Witness ==
  /\ input = <<"{\"id\":1}", NL, "{bad">>
  /\ lines = <<<<"{\"id\":1}">>>>
  /\ buffer = <<"{bad">>
  /\ ~stdinClosed

\* The final line handed over at end of input, when there is one
FinalLine == Last(Split(input))

\* the 'end' handler hands a non-blank remainder to processLine as one line
\* and, when the line is dispatched, counts it before it evaluates the exit
\* condition; the process then exits only after the output loop or the catch
\* block of the final line has run
FinalLineCountedBeforeExitCheck ==
  /\ [][(~stdinClosed /\ stdinClosed' /\ Trim(buffer) # <<>>)
          => /\ NewLines = <<buffer>>
             /\ IsValidLine(buffer)
                  => /\ pendingRequests' = pendingRequests + 1
                     /\ Len(reqs') = Len(reqs) + 1
                     /\ proc' = "running"]_vars
  /\ []((proc = "exit0" /\ IsValidLine(FinalLine))
          => reqs[Len(reqs)].phase \in {"written", "reported"})

\* C14: at end of input a non-blank remainder is dispatched as one final
\* line, counted in pendingRequests before the exit condition is evaluated
\* with stdinClosed set, and the process does not exit before the dispatch
\* of the final line has completed and every event of its response that is
\* not null is on the output stream.
C14_FinalLineWrittenBeforeExit ==
  /\ FinalLineCountedBeforeExitCheck
  /\ []((/\ proc = "exit0"
         /\ IsValidLine(FinalLine)
         /\ reqs[Len(reqs)].phase = "written")
          => LinesOf(Len(reqs), 1) = NonNullLines(reqs[Len(reqs)].events))

IsBlankLine(l) == Trim(l) = <<>>

\* C15: a blank or whitespace-only line handed to processLine changes
\* nothing: a step whose lines are all blank dispatches no request, writes
\* no diagnostic and no output line and leaves pendingRequests, sessionId,
\* stdinClosed and the process state unchanged; in a step that also hands
\* over other lines, the requests dispatched and the diagnostics written are
\* those of the other lines.
C15_BlankLineChangesNothing ==
  [][NewLines # <<>> =>
       /\ Len(reqs') - Len(reqs) = Count(NewLines, IsValidLine)
       /\ Len(stderr') - Len(stderr) = Count(NewLines, IsInvalidLine)
       /\ Count(NewLines, IsBlankLine) = Len(NewLines)
            => UNCHANGED <<reqs, stderr, stdout, pendingRequests, sessionId,
                           stdinClosed, proc, microtasks>>]_vars

\* an empty line and a whitespace-only line were handed over and nothing
\* was dispatched or written
C15_Witness ==
  /\ lines = <<<<>>, <<SP>>>>
  /\ reqs = <<>>
  /\ pendingRequests = 0
  /\ Len(stderr) = 1
  /\ stdout = <<>>
  /\ ~stdinClosed

\* C16: when the input ends before any text was received (no line sent, the
\* buffer empty), the step of the 'end' handler itself leaves the process
\* exited with status 0, with no output line written and no request issued.
C16_EmptyInputExitsAtOnce ==
  [][(~stdinClosed /\ stdinClosed' /\ input = <<>>)
       => /\ proc' = "exit0"
          /\ stdout' = <<>>
          /\ reqs' = <<>>
          /\ stderr' = stderr]_vars

\* the process has exited and no text was ever received
C16_Witness ==
  /\ proc = "exit0"
  /\ stdinClosed
  /\ input = <<>>
  /\ lines = <<>>
  /\ stdout = <<>>

\* the requests whose promise was rejected and the rejection reported
Reported == {i \in DOMAIN reqs : reqs[i].phase = "reported"}

\* C17: every line on stdout was written for a dispatched request whose
\* response was decoded and is the serialization of one of its events; the
\* diagnostics, one for each malformed line and one for each failed request,
\* are all on stderr behind the banner.
C17_StdoutCarriesOnlyEvents ==
  /\ \A k \in DOMAIN stdout :
       /\ writer[k] \in DOMAIN reqs
       /\ reqs[writer[k]].phase = "written"
       /\ \E e \in DOMAIN reqs[writer[k]].events :
            stdout[k] = JSONStringify(reqs[writer[k]].events[e])
  /\ Len(stderr) = 1 + Count(lines, IsInvalidLine) + Cardinality(Reported)
  /\ \A k \in 2..Len(stderr) : Head(stderr[k]) = "Error: "

\* one request failed and was diagnosed, another was answered and written
C17_Witness ==
  /\ Len(reqs) = 2
  /\ reqs[1].phase = "reported"
  /\ reqs[2].phase = "written"
  /\ Len(stdout) = 2
  /\ Len(stderr) = 2

\* C18: a SIGINT or SIGTERM delivered to the bridge in any state makes it
\* exit at once with status 0, whatever pendingRequests is and with nothing
\* written for the requests in flight.
C18_SignalExitsWithStatus0 ==
  [][(\E sig \in Signals : Signal(sig))
       => /\ proc' = "exit0"
          /\ stdout' = stdout
          /\ pendingRequests' = pendingRequests]_vars

\* a is b with some elements left out
RECURSIVE IsSubSeq(_, _)
IsSubSeq(a, b) ==
  IF a = <<>> THEN TRUE
  ELSE IF b = <<>> THEN FALSE
  ELSE IF Head(a) = Head(b) THEN IsSubSeq(Tail(a), Tail(b))
  ELSE IsSubSeq(a, Tail(b))

Serialized(events) == [k \in DOMAIN events |-> JSONStringify(events[k])]

\* C19: on stdout the lines of one response are a contiguous block, no line
\* of another response between them, and they are in the order of the
\* decoded events, whatever the order in which the responses completed.
C19_ResponseLinesContiguous ==
  /\ \A a \in DOMAIN writer, c \in DOMAIN writer :
       (a < c /\ writer[a] = writer[c])
         => \A b \in a..c : writer[b] = writer[a]
  /\ \A i \in DOMAIN reqs :
       IF reqs[i].phase = "written"
       THEN IsSubSeq(LinesOf(i, 1), Serialized(reqs[i].events))
       ELSE LinesOf(i, 1) = <<>>

\* two responses of two lines each, the second request's completed first
C19_Witness ==
  /\ writer = <<2, 2, 1, 1>>
  /\ stdout = <<"{\"id\":2}", "{\"id\":1}", "{\"id\":2}", "{\"id\":1}">>

\* C20: stdinClosed is false until the 'end' handler of stdin sets it, is
\* changed by no other step (a 'data' handler dispatching or diagnosing
\* lines, a response, a network error, a continuation of processLine) and,
\* once true, stays true.
C20_StdinClosedMonotonic ==
  /\ ~stdinClosed
  /\ [][/\ stdinClosed => stdinClosed'
        /\ stdinClosed' # stdinClosed => StdinEnd]_vars

\* the input has ended; since then one request has failed and been
\* diagnosed and the other is still in flight
C20_Witness ==
  /\ stdinClosed
  /\ proc = "running"
  /\ Len(reqs) = 2
  /\ reqs[1].phase = "reported"
  /\ reqs[2].phase = "open"
  /\ pendingRequests = 1

\* a session header that the response callback takes over
Supplies(h) == h # Undefined /\ h[1] = "string" /\ h[2] # ""

\* C21: sessionId is updated in the step in which a response's headers
\* arrive, when the response has no body yet, and by no other step (no body
\* chunk, end of body, decoding, network error or continuation changes it);
\* a request dispatched after the headers of a response arrived carries the
\* session id of the last response that supplied one, whether the body of
\* that response is still open, empty, undecodable, or failed.
C21_TokenUpdatedAtHeaders ==
  [][/\ Len(arrivals') = Len(arrivals) + 1
          => LET i == arrivals'[Len(arrivals')][1]
                 h == arrivals'[Len(arrivals')][2]
             IN /\ reqs[i].phase = "sent"
                /\ reqs'[i].phase = "open"
                /\ reqs'[i].body = <<>>
                /\ sessionId' = IF Supplies(h) THEN h ELSE sessionId
     /\ arrivals' = arrivals => sessionId' = sessionId
     /\ \A j \in DOMAIN reqs' \ DOMAIN reqs :
          LastSupplied(arrivals) # Null
            => /\ "Mcp-Session-Id" \in DOMAIN reqs'[j].headers
               /\ reqs'[j].headers["Mcp-Session-Id"] = LastSupplied(arrivals)[2]]_vars

\* the headers of the first response supplied S1, its body has not arrived,
\* and the second request, dispatched meanwhile, carries S1
C21_Witness ==
  /\ arrivals = <<<<1, S1>>>>
  /\ reqs[1].phase = "open"
  /\ reqs[1].body = <<>>
  /\ Len(reqs) = 2
  /\ reqs[2].phase = "sent"
  /\ "Mcp-Session-Id" \in DOMAIN reqs[2].headers
  /\ reqs[2].headers["Mcp-Session-Id"] = "S1"

\* call k is between its load and the release of the lock
InSection(k) ==
  calls[k].pc \in {"await loadWallet", "await mutator", "await saveWallet"}

Finished(k) == calls[k].pc \in {"resolved", "rejected"}

\* call k waits for a mutator whose promise never settles
Hung(k) == calls[k].pc = "await mutator" /\ calls[k].mutator = "never"

\* C22: the load-mutate-save sections of the updateWallet calls of one
\* instance exclude each other and run in call order: a call has loaded only
\* when every earlier call has finished, its save included, and the lock it
\* created is released exactly when it has finished; a call that found no
\* wallet file or whose mutator threw or rejected releases the lock, and
\* every waiting call eventually runs unless an earlier call waits for a
\* mutator that never settles.
C22_UpdateWalletSerialized ==
  /\ [](\A k \in DOMAIN calls :
          /\ (InSection(k) \/ Finished(k))
               => \A j \in 1..(k - 1) : Finished(j)
          /\ k \in settled <=> Finished(k))
  /\ [](\A a \in DOMAIN saves, b \in DOMAIN saves :
          a < b => saves[a] < saves[b])
  /\ \A k \in 1..MaxCalls :
       /\ (/\ k \in DOMAIN calls
           /\ calls[k].pc = "await loadWallet"
           /\ calls[k].wallet = Null \/ calls[k].mutator \in {"throws", "rejects"})
            ~> (k \in settled)
       /\ (k \in DOMAIN calls /\ calls[k].pc = "await release")
            ~> (/\ k \in DOMAIN calls
                /\ \/ calls[k].pc # "await release"
                   \/ \E j \in 1..(k - 1) : Hung(j))

\* the first call found no wallet file, the mutator of the second threw,
\* and the third call has run and saved
C22_Witness ==
  /\ Len(calls) = 3
  /\ calls[1].pc = "resolved" /\ calls[1].wallet = Null
  /\ calls[2].pc = "rejected" /\ calls[2].mutator = "throws"
  /\ calls[3].pc = "resolved"
  /\ file = <<"wallet", <<3>>>>
  /\ saves = <<3>>

====
